---- MODULE Spec2Model ----
(***************************************************************************)
(* Ingestion pipeline of the news aggregation server: the cron job with    *)
(* its isRunning flag (jobs/cronJob), the POST /ingest route               *)
(* (routes/news) and the ingestNews run with its category batches, page    *)
(* loop, delays and bulk upserts (services/newsService).                   *)
(*                                                                         *)
(* One action is one turn of the Node.js event loop: the callback runs     *)
(* from the event that woke it (timer, HTTP request, fetch or bulkWrite    *)
(* settling) up to the next await that really suspends, promise            *)
(* continuations on already settled promises included.                     *)
(***************************************************************************)
EXTENDS Integers, Sequences, FiniteSets, TLC

VARIABLES
    phase,          \* "boot" before startServer reached startCronJob, then "serving"
    task,           \* cronJob.task: "null", "scheduled" or "stopped"
    isRunning,      \* cronJob.isRunning
    API_KEY,        \* newsService.API_KEY is set (truthy)
    validSchedule,  \* cron.validate(CRON_SCHEDULE || default)
    fetchOnStart,   \* NODE_ENV === 'production' || FETCH_ON_START === 'true'
    env,            \* NEWS_FETCH_CATEGORIES split at ',' (<<>>: unset or empty)
    runs,           \* the executions of ingestNews, by invocation number
    store,          \* the Article collection: a set of documents
    response,       \* the answer POST /ingest sent since the latest run began
    lastRun,        \* what the latest run left when it ended
    lastTrigger,    \* the latest trigger and whether it began a run
    answered,       \* number of requests the upstream answered with a payload
    started,        \* number of ingestNews invocations so far
    freeSeen        \* number of triggers that found isRunning false

vars == <<phase, task, isRunning, API_KEY, validSchedule, fetchOnStart, env,
          runs, store, response, lastRun, lastTrigger, answered, started, freeSeen>>

config == <<API_KEY, validSchedule, fetchOnStart, env>>

----------------------------------------------------------------------------
\* Bounds of the model.

\* requests the upstream answers with a payload; its quota is then used up
\* and further requests fail
MaxAnswers == 3
\* executions of ingestNews in one behaviour
MaxRuns == 2
\* the configured category lists of Spec yield 0..MaxBatches batches
MaxBatches == 2
\* records in one upstream page
MaxResults == 1
\* comma-separated segments of NEWS_FETCH_CATEGORIES in SpecBatch
MaxSegments == 11
\* records in one upstream page of SpecStore
MaxOps == 2

\* Program constants.
CATEGORY_BATCH_SIZE == 5
MAX_PAGES == 3
PAGE_DELAY_MS == 1000
BATCH_DELAY_MS == 1500

----------------------------------------------------------------------------
\* JavaScript values.

Null == "null"
Omitted == "omitted"
Truthy(s) == s \notin {Null, "undefined", ""}

Min(a, b) == IF a < b THEN a ELSE b

\* (a + b - 1) \div b for b > 0
CeilDiv(a, b) == (a + b - 1) \div b

RECURSIVE Flatten(_)
Flatten(ss) == IF ss = <<>> THEN <<>> ELSE Head(ss) \o Flatten(Tail(ss))

----------------------------------------------------------------------------
\* Category configuration: NEWS_FETCH_CATEGORIES.split(',').map(trim).filter(Boolean)

\* A segment is a sequence of characters; " " is the only whitespace used.
RECURSIVE TrimStart(_)
TrimStart(seg) ==
    IF seg # <<>> /\ Head(seg) = " " THEN TrimStart(Tail(seg)) ELSE seg

RECURSIVE TrimEnd(_)
TrimEnd(seg) ==
    IF seg # <<>> /\ seg[Len(seg)] = " "
    THEN TrimEnd(SubSeq(seg, 1, Len(seg) - 1))
    ELSE seg

Trim(seg) == TrimEnd(TrimStart(seg))

DefaultCategories == << <<"technology">>, <<"business">>, <<"science">> >>

\* Non-empty segments after trimming, in order (filter(Boolean)).
allCategories(e) ==
    IF e = <<>>
    THEN DefaultCategories
    ELSE SelectSeq([i \in 1..Len(e) |-> Trim(e[i])], LAMBDA c : c # <<>>)

\* for (i = 0; i < n; i += 5) push(slice(i, i + 5))
RECURSIVE ChunkFrom(_, _)
ChunkFrom(cats, i) ==
    IF i < Len(cats)
    THEN << SubSeq(cats, i + 1, Min(i + CATEGORY_BATCH_SIZE, Len(cats))) >>
         \o ChunkFrom(cats, i + CATEGORY_BATCH_SIZE)
    ELSE <<>>

\* a loop that stops before a last batch of fewer than 5 categories
categoryBatchesFullOnly(cats) ==
    ChunkFrom(SubSeq(cats, 1, Len(cats) - (Len(cats) % CATEGORY_BATCH_SIZE)), 0)

categoryBatches(cats) == ChunkFrom(cats, 0)

----------------------------------------------------------------------------
\* Upstream records, normalisation and the Article collection.

\* A date string is a sequence of pieces; <<>> is an absent or empty pubDate
\* (falsy).  A stored pubDate is an instant <<date, time, zone>> or NoDate.
Dates == {"2026-02-20"}
Times == {"17:45:00", "06:30:00"}
NoDate == <<>>
NaN == <<"NaN">>

\* Raw records the upstream serves in Spec.  A scalar the upstream leaves
\* out is "undefined"; an array it leaves out is the empty option {}.
FeedRecords ==
    { [article_id |-> "a1", title |-> "T1", keywords |-> {<<"k1">>},
       description |-> "D1", pubDate |-> <<"2026-02-20", " ", "17:45:00">>],
      [article_id |-> "a1", title |-> "T2", keywords |-> {},
       description |-> "undefined", pubDate |-> <<"20/02/2026">>] }

\* Raw records of SpecStore: also a record without title, a second
\* article_id, an empty description and a record without pubDate.
StoreRecords ==
    FeedRecords \cup
    { [article_id |-> "a1", title |-> "undefined", keywords |-> {},
       description |-> "undefined", pubDate |-> <<"not a date">>],
      [article_id |-> "a2", title |-> "T3", keywords |-> {<<"k2", "k3">>},
       description |-> "", pubDate |-> <<"2026-02-20", " ", "06:30:00">>],
      [article_id |-> "a2", title |-> "T3", keywords |-> {},
       description |-> "D2", pubDate |-> <<>>] }

\* String(pubDate).replace(' ', 'T'): the first blank only
RECURSIVE ReplaceFirstBlank(_)
ReplaceFirstBlank(s) ==
    IF s = <<>> THEN <<>>
    ELSE IF Head(s) = " " THEN <<"T">> \o Tail(s)
    ELSE <<Head(s)>> \o ReplaceFirstBlank(Tail(s))

\* new Date(iso): an ISO date-time is read as UTC with the designator Z and
\* as local time without it; anything else gives an invalid Date
DateOf(iso) ==
    IF Len(iso) \in {3, 4} /\ iso[1] \in Dates /\ iso[2] = "T" /\ iso[3] \in Times
       /\ (Len(iso) = 4 => iso[4] = "Z")
    THEN <<iso[1], iso[3], IF Len(iso) = 4 THEN "UTC" ELSE "local">>
    ELSE NaN

\* the date parsed without the appended 'Z'
parsedDateNoZone(raw) ==
    IF raw = <<>> THEN NoDate
    ELSE LET d == DateOf(ReplaceFirstBlank(raw))
         IN  IF d = NaN THEN NoDate ELSE d

\* new Date(String(pubDate).replace(' ', 'T') + 'Z'), null when NaN or no pubDate
parsedDate(raw) ==
    IF raw = <<>> THEN NoDate
    ELSE LET d == DateOf(ReplaceFirstBlank(raw) \o <<"Z">>)
         IN  IF d = NaN THEN NoDate ELSE d

OrEmpty(opt) == IF opt = {} THEN <<>> ELSE CHOOSE x \in opt : TRUE
OrNull(s) == IF Truthy(s) THEN s ELSE Null

\* the $set document of one updateOne operation
SetFields(article) ==
    [article_id  |-> article.article_id,
     title       |-> article.title,
     keywords    |-> OrEmpty(article.keywords),
     description |-> OrNull(article.description),
     pubDate     |-> parsedDate(article.pubDate)]

\* Mongoose casts the update before it is sent: a $set key whose value is
\* undefined is stripped, so that the stored value (oldTitle, "absent" when
\* the document is inserted) stays, or, by versions before 6, sent as null.
Cast(set, oldTitle, strip) ==
    [set EXCEPT !.title = IF set.title = "undefined"
                          THEN (IF strip THEN oldTitle ELSE Null)
                          ELSE set.title]

\* One updateOne {filter: {article_id}, $set, upsert: true}.
\* acc = [store, upserted, modified, fresh, strip]; fresh holds the
\* article_ids whose document already carries this operation's updatedAt
\* (schema option timestamps: true): the server counts a document as
\* modified only if the update changes it.
ApplyOp(acc, article) ==
    LET set == SetFields(article)
        hits == {d \in acc.store : d.article_id = set.article_id}
    IN  IF hits = {}
        THEN [acc EXCEPT !.store = @ \cup {Cast(set, "absent", acc.strip)},
                         !.upserted = @ + 1,
                         !.fresh = @ \cup {set.article_id}]
        ELSE LET old == CHOOSE d \in hits : TRUE
                 doc == Cast(set, old.title, acc.strip)
                 changed == doc # old \/ set.article_id \notin acc.fresh
             IN [acc EXCEPT !.store = (@ \ {old}) \cup {doc},
                            !.modified = @ + (IF changed THEN 1 ELSE 0),
                            !.fresh = @ \cup {set.article_id}]

\* Whether the update document keeps an undefined title as null or drops the
\* key is a choice only when some record of the page has no title.
Strips(articles) ==
    IF \E i \in 1..Len(articles) : articles[i].title = "undefined"
    THEN BOOLEAN ELSE {TRUE}

\* the positions whose article_id an earlier operation of the call wrote
Repeats(articles) ==
    {i \in 2..Len(articles) :
        \E j \in 1..(i - 1) : articles[j].article_id = articles[i].article_id}

\* How one bulkWrite call is carried out: strip as in Cast, and ticks, the
\* positions before which the millisecond clock advanced while the
\* operations were given their updatedAt; a tick shows only at a repeated
\* article_id.  Two calls never share a millisecond: a fetch lies between
\* them.
Hows(articles) == [strip : Strips(articles), ticks : SUBSET Repeats(articles)]

\* Article.bulkWrite(ops, {ordered: false}) when every operation succeeds:
\* the server applies the operations one after the other
bulkWrite(st, articles, how) ==
    LET F[i \in 0..Len(articles)] ==
            IF i = 0
            THEN [store |-> st, upserted |-> 0, modified |-> 0, fresh |-> {},
                  strip |-> how.strip]
            ELSE ApplyOp(IF i \in how.ticks THEN [F[i - 1] EXCEPT !.fresh = {}]
                         ELSE F[i - 1],
                         articles[i])
    IN  F[Len(articles)]

\* the operations at the positions of keep, in order
Kept(articles, keep) ==
    LET F[i \in 0..Len(articles)] ==
            IF i = 0 THEN <<>>
            ELSE IF i \in keep THEN Append(F[i - 1], articles[i]) ELSE F[i - 1]
    IN  F[Len(articles)]

----------------------------------------------------------------------------
\* Errors.

NoErr == [message |-> "", status |-> 0, hasResponse |-> FALSE]
AlreadyRunning ==
    [message |-> "Ingestion already in progress", status |-> 0,
     hasResponse |-> FALSE]
\* what axios.get rejects with: no answer, or an answer with an HTTP error
TransportErrors ==
    { [message |-> "timeout of 30000ms exceeded", status |-> 0,
       hasResponse |-> FALSE],
      [message |-> "Request failed with status code 429", status |-> 429,
       hasResponse |-> TRUE] }
StoreError ==
    [message |-> "bulkWrite failed", status |-> 0, hasResponse |-> FALSE]

----------------------------------------------------------------------------
\* One execution of ingestNews.

NoParams == [category |-> <<>>, page |-> Omitted]

\* fetched counts the fetches issued for the current batch and issued those
\* of the whole run, delay is the timer a run waits on, answer is what the
\* upstream or the store answered last ("success", "error",
\* "transportError", "writeOk", "writeError"); okFetches counts the payloads
\* with status success the upstream returned to the run, sumUpserted and
\* sumModified add up the counts bulkWrite returned to it.
\* pc: "idle" (no execution), "fetch" (awaiting fetchNewsPage), "upsert"
\* (awaiting bulkWrite), "pageDelay", "batchDelay", and, only within a
\* step, "returned" and "threw".
Idle ==
    [pc |-> "idle", origin |-> "none", batches |-> <<>>, bi |-> 0,
     page |-> Null, pageCount |-> 0,
     totalUpserted |-> 0, totalModified |-> 0, totalPages |-> 0,
     params |-> NoParams, articles |-> <<>>, nextPage |-> Null,
     result |-> "none", err |-> NoErr,
     fetched |-> 0, issued |-> 0, delay |-> 0, answer |-> "none",
     okFetches |-> 0, sumUpserted |-> 0, sumModified |-> 0]

Ended(r) == r.pc \in {"returned", "threw"}

\* params = {language, category, ...(page ? {page} : {})}; fetchNewsPage(params)
IssueFetch(r) ==
    LET p == [category |-> r.batches[r.bi],
              page |-> IF Truthy(r.page) THEN r.page ELSE Omitted]
    IN  [r EXCEPT !.pc = "fetch", !.params = p, !.fetched = @ + 1,
                  !.issued = @ + 1]

\* let page = null hoisted out of the for loop: a batch starts with the
\* token the previous batch left
EnterBatchKeepsPage(r, i) ==
    IF i <= Len(r.batches)
    THEN IssueFetch([r EXCEPT !.bi = i, !.pageCount = 0, !.fetched = 0])
    ELSE [r EXCEPT !.pc = "returned", !.result = "totals"]

\* the for loop reaches batch i, or its end: return {pages, upserted, modified}
EnterBatch(r, i) ==
    IF i <= Len(r.batches)
    THEN IssueFetch([r EXCEPT !.bi = i, !.page = Null, !.pageCount = 0,
                              !.fetched = 0])
    ELSE [r EXCEPT !.pc = "returned", !.result = "totals"]

\* the inter-batch delay awaited after the last batch as well
AfterLoopAlwaysDelays(r) ==
    [r EXCEPT !.pc = "batchDelay", !.delay = BATCH_DELAY_MS]

\* after the do-while of a batch: delay when further batches remain
AfterLoop(r) ==
    IF r.bi - 1 < Len(r.batches) - 1
    THEN [r EXCEPT !.pc = "batchDelay", !.delay = BATCH_DELAY_MS]
    ELSE EnterBatch(r, r.bi + 1)

\* totalUpserted = upserted and totalModified = modified instead of +=
AfterUpsertAssignsTotals(r, upserted, modified) ==
    LET page == IF Truthy(r.nextPage) THEN r.nextPage ELSE Null
        r1 == [r EXCEPT !.totalUpserted = upserted,
                        !.totalModified = modified,
                        !.page = page,
                        !.pageCount = @ + 1,
                        !.totalPages = @ + 1,
                        !.articles = <<>>]
    IN  IF Truthy(page) /\ r1.pageCount < MAX_PAGES
        THEN [r1 EXCEPT !.pc = "pageDelay", !.delay = PAGE_DELAY_MS]
        ELSE AfterLoop(r1)

\* the loop condition written while (page), without the page cap
AfterUpsertNoCap(r, upserted, modified) ==
    LET page == IF Truthy(r.nextPage) THEN r.nextPage ELSE Null
        r1 == [r EXCEPT !.totalUpserted = @ + upserted,
                        !.totalModified = @ + modified,
                        !.page = page,
                        !.pageCount = @ + 1,
                        !.totalPages = @ + 1,
                        !.articles = <<>>]
    IN  IF Truthy(page)
        THEN [r1 EXCEPT !.pc = "pageDelay", !.delay = PAGE_DELAY_MS]
        ELSE AfterLoop(r1)

\* the loop condition written pageCount <= MAX_PAGES
AfterUpsertOffByOne(r, upserted, modified) ==
    LET page == IF Truthy(r.nextPage) THEN r.nextPage ELSE Null
        r1 == [r EXCEPT !.totalUpserted = @ + upserted,
                        !.totalModified = @ + modified,
                        !.page = page,
                        !.pageCount = @ + 1,
                        !.totalPages = @ + 1,
                        !.articles = <<>>]
    IN  IF Truthy(page) /\ r1.pageCount <= MAX_PAGES
        THEN [r1 EXCEPT !.pc = "pageDelay", !.delay = PAGE_DELAY_MS]
        ELSE AfterLoop(r1)

\* totals, page = data.nextPage || null, counters, delay and loop condition
AfterUpsert(r, upserted, modified) ==
    LET page == IF Truthy(r.nextPage) THEN r.nextPage ELSE Null
        r1 == [r EXCEPT !.totalUpserted = @ + upserted,
                        !.totalModified = @ + modified,
                        !.page = page,
                        !.pageCount = @ + 1,
                        !.totalPages = @ + 1,
                        !.articles = <<>>]
    IN  IF Truthy(page) /\ r1.pageCount < MAX_PAGES
        THEN [r1 EXCEPT !.pc = "pageDelay", !.delay = PAGE_DELAY_MS]
        ELSE AfterLoop(r1)

\* an empty result list leaves the loop before the page is counted
OnDataEmptyBreaks(r, data) ==
    IF data.status # "success"
    THEN AfterLoop(r)
    ELSE LET articles == IF data.hasResults THEN data.results ELSE <<>>
             r1 == [r EXCEPT !.articles = articles, !.nextPage = data.nextPage]
         IN  IF Len(articles) = 0
             THEN AfterLoop(r1)
             ELSE [r1 EXCEPT !.pc = "upsert"]

\* a non-success payload raised instead of leaving the loop
OnDataThrows(r, data) ==
    IF data.status # "success"
    THEN [r EXCEPT !.pc = "threw", !.result = "none",
                   !.err = [message |-> "NewsData API error", status |-> 0,
                            hasResponse |-> FALSE]]
    ELSE LET articles == IF data.hasResults THEN data.results ELSE <<>>
             r1 == [r EXCEPT !.articles = articles, !.nextPage = data.nextPage]
         IN  IF Len(articles) = 0
             THEN AfterUpsert(r1, 0, 0)
             ELSE [r1 EXCEPT !.pc = "upsert"]

\* the body of the do-while once fetchNewsPage resolved with data
OnData(r, data) ==
    IF data.status # "success"
    THEN AfterLoop(r)
    ELSE LET articles == IF data.hasResults THEN data.results ELSE <<>>
             r1 == [r EXCEPT !.articles = articles, !.nextPage = data.nextPage]
         IN  IF Len(articles) = 0
             THEN AfterUpsert(r1, 0, 0)
             ELSE [r1 EXCEPT !.pc = "upsert"]

\* a catch that logs and goes on with the next batch
OnThrowSwallowed(r, e) == AfterLoop(r)

\* catch (error) { log; throw error }
OnThrow(r, e) == [r EXCEPT !.pc = "threw", !.err = e, !.result = "none"]

\* ingestNews() without the API_KEY check
ingestNewsNoKeyCheck(origin, key, e) ==
    EnterBatch([Idle EXCEPT !.origin = origin,
                            !.batches = categoryBatches(allCategories(e))], 1)

\* ingestNews() up to its first suspension
ingestNews(origin, key, e) ==
    IF ~key
    THEN [Idle EXCEPT !.origin = origin, !.pc = "returned", !.result = "undefined"]
    ELSE EnterBatch([Idle EXCEPT !.origin = origin,
                                 !.batches = categoryBatches(allCategories(e))], 1)

----------------------------------------------------------------------------
\* The callers of ingestNews and their cleanup.

NoResponse == [via |-> "none", status |-> 0, message |-> "", data |-> "none"]

\* errorHandler(err, req, res, next): status = err.status || err.statusCode || 500
errorHandler(err) ==
    [via |-> "errorHandler",
     status |-> IF err.status # 0 THEN err.status ELSE 500,
     message |-> err.message, data |-> "none"]

\* a catch that hands every error to next(error)
routerCatchGeneric(err) == errorHandler(err)

\* the catch of router.post('/ingest')
routerCatch(err) ==
    IF err.message = "Ingestion already in progress"
    THEN [via |-> "json", status |-> 409, message |-> err.message, data |-> "none"]
    ELSE errorHandler(err)

\* router.post('/ingest') once triggerManualIngestion settled as run record r
routerPost(r) ==
    IF r.pc = "returned"
    THEN [via |-> "json", status |-> 200, message |-> "Ingestion complete",
          data |-> r.result]
    ELSE routerCatch(r.err)

\* the flag cleared after the await only, not in a finally
finallyFlagOnSuccessOnly(r) == r.pc = "threw"

\* finally { isRunning = false }: the flag after a run ended
finallyFlag(r) == FALSE

\* what is kept of a run that ended
Summary(r) ==
    [origin |-> r.origin, pc |-> r.pc, result |-> r.result,
     message |-> r.err.message, fetched |-> r.bi > 0, answer |-> r.answer,
     pages |-> r.totalPages, upserted |-> r.totalUpserted,
     modified |-> r.totalModified, okFetches |-> r.okFetches,
     sumUpserted |-> r.sumUpserted, sumModified |-> r.sumModified]

NoRun ==
    [origin |-> "none", pc |-> "idle", result |-> "none", message |-> "",
     fetched |-> FALSE, answer |-> "none", pages |-> 0, upserted |-> 0,
     modified |-> 0, okFetches |-> 0, sumUpserted |-> 0, sumModified |-> 0]

\* the callers' catch left out: the error of a failed cron or startup run
\* leaves the scheduler and reaches the error handler
SettleNoCatch(id, r, flag, last, resp) ==
    /\ runs' = [runs EXCEPT ![id] = IF Ended(r) THEN Idle ELSE r]
    /\ isRunning' = IF Ended(r) THEN finallyFlag(r) ELSE flag
    /\ lastRun' = IF Ended(r) THEN Summary(r) ELSE last
    /\ response' = IF Ended(r) /\ (r.origin = "manual" \/ r.pc = "threw")
                   THEN routerPost(r)
                   ELSE resp

\* A run record r after a step: kept while suspended; when ended, the
\* caller's cleanup runs in the same turn.
Settle(id, r, flag, last, resp) ==
    /\ runs' = [runs EXCEPT ![id] = IF Ended(r) THEN Idle ELSE r]
    /\ isRunning' = IF Ended(r) THEN finallyFlag(r) ELSE flag
    /\ lastRun' = IF Ended(r) THEN Summary(r) ELSE last
    /\ response' = IF Ended(r) /\ r.origin = "manual" THEN routerPost(r)
                   ELSE resp

\* a step of a run that is under way
Step(id, r) == Settle(id, r, isRunning, lastRun, response)

\* a trigger that sets isRunning and calls ingestNews
Begin(origin) ==
    /\ started < MaxRuns
    /\ started' = started + 1
    /\ freeSeen' = freeSeen + (IF isRunning THEN 0 ELSE 1)
    /\ lastTrigger' = [kind |-> origin, began |-> TRUE]
    /\ Settle(started + 1, ingestNews(origin, API_KEY, env), TRUE, NoRun, NoResponse)

\* an invalid schedule replaced by the default one, as the log line says
startCronJobDefaultSchedule ==
    /\ phase = "boot"
    /\ phase' = "serving"
    /\ task' = "scheduled"
    /\ IF fetchOnStart
       THEN Begin("startup")
       ELSE UNCHANGED <<isRunning, runs, lastRun, response, lastTrigger,
                        started, freeSeen>>
    /\ UNCHANGED <<config, store, answered>>

\* startCronJob(), called once by startServer before any request is served
startCronJob ==
    /\ phase = "boot"
    /\ phase' = "serving"
    /\ IF ~validSchedule
       THEN UNCHANGED <<task, isRunning, runs, lastRun, response, lastTrigger,
                        started, freeSeen>>
       ELSE /\ task' = "scheduled"
            /\ IF fetchOnStart
               THEN Begin("startup")
               ELSE UNCHANGED <<isRunning, runs, lastRun, response, lastTrigger,
                                started, freeSeen>>
    /\ UNCHANGED <<config, store, answered>>

\* stopCronJob(), called by shutdown
stopCronJob ==
    /\ phase = "serving"
    /\ task = "scheduled"
    /\ task' = "stopped"
    /\ UNCHANGED <<phase, isRunning, config, runs, store, response, lastRun,
                   lastTrigger, answered, started, freeSeen>>

\* a callback that does not test isRunning
cronCallbackUnguarded ==
    /\ task = "scheduled"
    /\ Begin("cron")
    /\ UNCHANGED <<phase, task, config, store, answered>>

\* the callback of cron.schedule, at one firing
cronCallback ==
    /\ task = "scheduled"
    /\ IF isRunning
       THEN /\ lastTrigger' = [kind |-> "cron", began |-> FALSE]
            /\ UNCHANGED <<isRunning, runs, lastRun, response, started, freeSeen>>
       ELSE /\ Begin("cron")
    /\ UNCHANGED <<phase, task, config, store, answered>>

\* triggerManualIngestion without the isRunning test
triggerManualIngestionUnguarded ==
    /\ phase = "serving"
    /\ Begin("manual")
    /\ UNCHANGED <<phase, task, config, store, answered>>

\* triggerManualIngestion that never sets isRunning
triggerManualIngestionNoSet ==
    /\ phase = "serving"
    /\ IF isRunning
       THEN /\ lastTrigger' = [kind |-> "manual", began |-> FALSE]
            /\ response' = routerCatch(AlreadyRunning)
            /\ UNCHANGED <<isRunning, runs, lastRun, started, freeSeen>>
       ELSE /\ started < MaxRuns
            /\ started' = started + 1
            /\ freeSeen' = freeSeen + 1
            /\ lastTrigger' = [kind |-> "manual", began |-> TRUE]
            /\ Settle(started + 1, ingestNews("manual", API_KEY, env), FALSE,
                      NoRun, NoResponse)
    /\ UNCHANGED <<phase, task, config, store, answered>>

\* the isRunning test moved inside the try: the finally of the rejected call
\* clears the flag of the run under way
triggerManualIngestionTestInTry ==
    /\ phase = "serving"
    /\ IF isRunning
       THEN /\ lastTrigger' = [kind |-> "manual", began |-> FALSE]
            /\ response' = routerCatch(AlreadyRunning)
            /\ isRunning' = FALSE
            /\ UNCHANGED <<runs, lastRun, started, freeSeen>>
       ELSE /\ Begin("manual")
    /\ UNCHANGED <<phase, task, config, store, answered>>

\* POST /ingest: triggerManualIngestion() up to its first suspension
triggerManualIngestion ==
    /\ phase = "serving"
    /\ IF isRunning
       THEN /\ lastTrigger' = [kind |-> "manual", began |-> FALSE]
            /\ response' = routerCatch(AlreadyRunning)
            /\ UNCHANGED <<isRunning, runs, lastRun, started, freeSeen>>
       ELSE /\ Begin("manual")
    /\ UNCHANGED <<phase, task, config, store, answered>>

----------------------------------------------------------------------------
\* The upstream and the store answering a suspended run.

Tokens == {"p1", "p2"}

Pages ==
    UNION { [1..n -> FeedRecords] : n \in 0..MaxResults }

\* response.data of GET {BASE_URL}/news
Payloads ==
    { [status |-> "success", hasResults |-> TRUE, results |-> rs, nextPage |-> t] :
        rs \in Pages, t \in Tokens \cup {Null} }
    \cup
    { [status |-> "success", hasResults |-> TRUE, results |-> <<>>, nextPage |-> ""] }
    \cup
    { [status |-> "success", hasResults |-> FALSE, results |-> <<>>, nextPage |-> t] :
        t \in {Null, "p1"} }
    \cup
    { [status |-> "error", hasResults |-> FALSE, results |-> <<>>, nextPage |-> t] :
        t \in {Null, "p1"} }

RunIds == 1..MaxRuns

\* await fetchNewsPage(params) settles
fetchSettles(id) ==
    /\ runs[id].pc = "fetch"
    /\ \/ /\ answered < MaxAnswers
          /\ answered' = answered + 1
          /\ \E data \in Payloads :
                Step(id, OnData([runs[id] EXCEPT
                                    !.answer = data.status,
                                    !.okFetches = @ + (IF data.status = "success"
                                                       THEN 1 ELSE 0)],
                                data))
       \/ /\ UNCHANGED answered
          /\ \E e \in TransportErrors :
                Step(id, OnThrow([runs[id] EXCEPT !.answer = "transportError"], e))
    /\ UNCHANGED <<phase, task, config, store, lastTrigger, started, freeSeen>>

\* a failed write undone by deleting the Articles of the page
bulkWriteSettlesRollsBack(id) ==
    /\ runs[id].pc = "upsert"
    /\ \/ \E how \in Hows(runs[id].articles) :
          \E res \in {bulkWrite(store, runs[id].articles, how)} :
               /\ store' = res.store
               /\ Step(id, AfterUpsert([runs[id] EXCEPT
                                           !.answer = "writeOk",
                                           !.sumUpserted = @ + res.upserted,
                                           !.sumModified = @ + res.modified],
                                        res.upserted, res.modified))
       \/ /\ store' = {d \in store :
                         \A i \in 1..Len(runs[id].articles) :
                            runs[id].articles[i].article_id # d.article_id}
          /\ Step(id, OnThrow([runs[id] EXCEPT !.answer = "writeError"],
                               StoreError))
    /\ UNCHANGED <<phase, task, config, lastTrigger, answered, started, freeSeen>>

\* await Article.bulkWrite(ops, {ordered: false}) settles: with the counts,
\* or, when some operation failed, with an error after the others were applied
bulkWriteSettles(id) ==
    /\ runs[id].pc = "upsert"
    /\ \/ \E how \in Hows(runs[id].articles) :
          \E res \in {bulkWrite(store, runs[id].articles, how)} :
               /\ store' = res.store
               /\ Step(id, AfterUpsert([runs[id] EXCEPT
                                           !.answer = "writeOk",
                                           !.sumUpserted = @ + res.upserted,
                                           !.sumModified = @ + res.modified],
                                        res.upserted, res.modified))
       \/ \E keep \in SUBSET (1..Len(runs[id].articles)),
             strip \in Strips(runs[id].articles) :
               /\ keep # 1..Len(runs[id].articles)
               /\ store' = bulkWrite(store, Kept(runs[id].articles, keep),
                                     [strip |-> strip, ticks |-> {}]).store
               /\ Step(id, OnThrow([runs[id] EXCEPT !.answer = "writeError"],
                                    StoreError))
    /\ UNCHANGED <<phase, task, config, lastTrigger, answered, started, freeSeen>>

\* the setTimeout of a delay fires
delayElapsed(id) ==
    /\ runs[id].pc \in {"pageDelay", "batchDelay"}
    /\ IF runs[id].pc = "pageDelay"
       THEN Step(id, IssueFetch([runs[id] EXCEPT !.delay = 0]))
       ELSE Step(id, EnterBatch([runs[id] EXCEPT !.delay = 0], runs[id].bi + 1))
    /\ UNCHANGED <<phase, task, config, store, lastTrigger, answered, started, freeSeen>>

----------------------------------------------------------------------------
\* The configurations and the specification.

\* CATEGORY_BATCH_SIZE * (k - 1) + 1 named segments: the shortest list with k batches
EnvOf(k) ==
    IF k = 0 THEN << <<" ">>, <<>> >>
    ELSE [i \in 1..(CATEGORY_BATCH_SIZE * (k - 1) + 1) |-> <<" ", ToString(i)>>]

\* unset, only blank segments, and a list that fills MaxBatches batches
EnvChoices == {<<>>, EnvOf(0), EnvOf(MaxBatches)}

\* The startup run is explored with the default categories.
Init ==
    /\ phase = "boot"
    /\ task = "null"
    /\ isRunning = FALSE
    /\ API_KEY \in BOOLEAN
    /\ validSchedule \in BOOLEAN
    /\ fetchOnStart \in BOOLEAN
    /\ env \in EnvChoices
    /\ env # <<>> => ~fetchOnStart
    /\ runs = [id \in RunIds |-> Idle]
    /\ store = {}
    /\ response = NoResponse
    /\ lastRun = NoRun
    /\ lastTrigger = [kind |-> "none", began |-> FALSE]
    /\ answered = 0
    /\ started = 0
    /\ freeSeen = 0

Next ==
    \/ startCronJob
    \/ stopCronJob
    \/ cronCallback
    \/ triggerManualIngestion
    \/ \E id \in RunIds : fetchSettles(id)
    \/ \E id \in RunIds : bulkWriteSettles(id)
    \/ \E id \in RunIds : delayElapsed(id)

Spec == Init /\ [][Next]_vars

\* The scheduler and the run make progress: a pending fetch, bulkWrite or
\* timer settles (axios has a 30 s timeout, timers fire).
RunNext ==
    \E id \in RunIds : fetchSettles(id) \/ bulkWriteSettles(id) \/ delayElapsed(id)

\* The configurations of the progress check: every entry path (cron, startup,
\* manual) with the default category list, and the longest category list
\* with the scheduler disabled.
InitLive ==
    /\ Init
    /\ env \in {<<>>, EnvOf(MaxBatches)}
    /\ env # <<>> => (~validSchedule /\ ~fetchOnStart)

FairSpec == InitLive /\ [][Next]_vars /\ WF_vars(RunNext)

----------------------------------------------------------------------------
\* The category configuration alone: NEWS_FETCH_CATEGORIES grows segment by
\* segment and the first lines of ingestNews chunk it.

Segments == { <<" ">>, <<" ", "a">>, <<"b", " ">> }

InitBatch ==
    /\ Init
    /\ API_KEY = TRUE
    /\ validSchedule = FALSE
    /\ fetchOnStart = FALSE
    /\ env = <<>>

\* one more comma-separated segment in the configured list
appendSegment ==
    /\ phase = "boot"
    /\ Len(env) < MaxSegments
    /\ \E seg \in Segments : env' = Append(env, seg)
    /\ UNCHANGED <<phase, task, isRunning, API_KEY, validSchedule, fetchOnStart,
                   runs, store, response, lastRun, lastTrigger, answered,
                   started, freeSeen>>

\* ingestNews() up to its first fetch, by POST /ingest
planBatches ==
    /\ phase = "boot"
    /\ phase' = "serving"
    /\ Begin("manual")
    /\ UNCHANGED <<task, config, store, answered>>

NextBatch == appendSegment \/ planBatches

SpecBatch == InitBatch /\ [][NextBatch]_vars

----------------------------------------------------------------------------
\* The store adapter alone: manual runs over the default categories (one
\* batch) whose fetch returns a last page of up to MaxOps records.

StorePages == UNION { [1..n -> StoreRecords] : n \in 1..MaxOps }

InitStore ==
    /\ Init
    /\ API_KEY = TRUE
    /\ validSchedule = FALSE
    /\ fetchOnStart = FALSE
    /\ env = <<>>

\* await fetchNewsPage(params) settles with a page of records and no nextPage
fetchSettlesRecords(id) ==
    /\ runs[id].pc = "fetch"
    /\ answered < MaxAnswers
    /\ answered' = answered + 1
    /\ \E rs \in StorePages :
          Step(id, OnData([runs[id] EXCEPT !.answer = "success",
                                           !.okFetches = @ + 1],
                          [status |-> "success", hasResults |-> TRUE,
                           results |-> rs, nextPage |-> Null]))
    /\ UNCHANGED <<phase, task, config, store, lastTrigger, started, freeSeen>>

NextStore ==
    \/ startCronJob
    \/ triggerManualIngestion
    \/ \E id \in RunIds : fetchSettlesRecords(id)
    \/ \E id \in RunIds : bulkWriteSettles(id)

SpecStore == InitStore /\ [][NextStore]_vars

----------------------------------------------------------------------------
\* Properties.

Active == {id \in RunIds : runs[id].pc # "idle"}

\* run id takes a step
RunStep(id) == runs[id].pc # "idle" /\ runs'[id] # runs[id]

\* what the upstream or the store answered run id in this step
PostAnswer(id) ==
    IF runs'[id].pc = "idle" THEN lastRun'.answer ELSE runs'[id].answer

\* a cron firing, a POST /ingest or the startup run happens in this step
\* a trigger is denied in this step (a second denial of the same kind in a
\* row changes no variable)
DeniedStep == lastTrigger' # lastTrigger /\ ~lastTrigger'.began
TriggerStep == started' # started \/ DeniedStep

\* C1: in every reachable state at most one execution of ingestNews is under
\* way, and isRunning is set exactly while one is, whatever the interleaving
\* of cron firings, the startup run and manual triggers.
C1_SingleRun ==
    /\ Cardinality(Active) <= 1
    /\ isRunning <=> Active # {}

\* a manual trigger arrived while a run was waiting in its inter-page delay
C1_Witness ==
    /\ \E id \in RunIds : runs[id].pc = "pageDelay"
    /\ lastTrigger = [kind |-> "manual", began |-> FALSE]

\* C2: a trigger that arrives while no run is under way begins one at once;
\* a trigger that arrives while a run is under way begins none and fails with
\* the already-running condition (the 409 answer for a manual trigger); so of
\* two triggers arriving in a row during a run's lifetime exactly one begins
\* a run, and after the release the next trigger begins one again.
C2_Acquire ==
    [][TriggerStep =>
         IF Active = {}
         THEN /\ started' = started + 1
              /\ lastTrigger'.began
         ELSE /\ started' = started
              /\ ~lastTrigger'.began
              /\ runs' = runs
              /\ isRunning'
              /\ lastTrigger'.kind = "manual" => response'.status = 409]_vars

\* a second run began after the first one ended, and a cron firing that
\* arrived during it was skipped
C2_Witness ==
    /\ started = 2
    /\ lastTrigger = [kind |-> "cron", began |-> FALSE]
    /\ lastRun.pc = "idle"
    /\ Active # {}

\* C3: isRunning = true always leads to isRunning = false, given that every
\* pending fetch, bulkWrite and timer settles: the flag is cleared after a
\* run returned totals, returned early without credential, or raised.
C3_Released == isRunning ~> ~isRunning

\* a cron run raised and the flag is cleared
C3_Witness ==
    /\ lastRun.origin = "cron"
    /\ lastRun.pc = "threw"
    /\ ~isRunning

\* C4: POST /ingest while a run is under way is answered 409 with "Ingestion
\* already in progress"; 409 is answered in no other step; a manual run that
\* raises hands its own error, message unchanged, to the error handler.
C4_Conflict ==
    [][/\ (DeniedStep /\ lastTrigger'.kind = "manual") =>
              response' = [via |-> "json", status |-> 409,
                           message |-> "Ingestion already in progress",
                           data |-> "none"]
       /\ (response' # response /\ response'.status = 409) =>
              (Active # {} /\ lastTrigger' = [kind |-> "manual", began |-> FALSE]
                 /\ runs' = runs)
       /\ \A id \in RunIds :
              (RunStep(id) /\ runs[id].origin = "manual" /\ runs'[id].pc = "idle"
                 /\ lastRun'.pc = "threw") =>
                  /\ response'.via = "errorHandler"
                  /\ response'.message = lastRun'.message
                  /\ response'.message # "Ingestion already in progress"
                  /\ response'.status # 409]_vars

\* a manual trigger was answered 409 while a run is under way
C4_Witness ==
    /\ response.status = 409
    /\ Active # {}
    /\ lastTrigger = [kind |-> "manual", began |-> FALSE]

\* C5: a cron firing during a run changes nothing of the run and begins
\* none; the end of a run begins no run; a run begins only in the step of a
\* trigger that found no run under way, so started never exceeds freeSeen.
C5_NoQueue ==
    [][/\ (DeniedStep /\ lastTrigger'.kind = "cron") =>
              UNCHANGED <<runs, isRunning, store, started, response, lastRun>>
       /\ (\E id \in RunIds : RunStep(id)) => started' = started
       /\ started' # started => (Active = {} /\ started' = started + 1)
       /\ started' <= freeSeen']_vars

\* a firing was skipped, the run it met has ended, and no second run began
C5_Witness ==
    /\ lastTrigger = [kind |-> "cron", began |-> FALSE]
    /\ lastRun.pc # "idle"
    /\ Active = {}
    /\ ~isRunning
    /\ started = 1

\* C6: every batch a run enters issues between 1 and MAX_PAGES fetches; a
\* further page of the batch is awaited only with a continuation token and a
\* page count below MAX_PAGES; a batch left after a successful page was left
\* because the token was absent or the page count reached MAX_PAGES.
C6_Pagination ==
    \A id \in RunIds :
        LET r == runs[id]
        IN  r.pc # "idle" =>
              /\ r.bi \in 1..Len(r.batches)
              /\ r.fetched \in 1..MAX_PAGES
              /\ r.pageCount \in 0..MAX_PAGES
              /\ r.pc \in {"fetch", "upsert"} => r.fetched = r.pageCount + 1
              /\ r.pc = "fetch" =>
                    (r.params.page # Omitted <=> r.pageCount > 0)
              /\ r.pc = "pageDelay" =>
                    /\ Truthy(r.page)
                    /\ r.pageCount < MAX_PAGES
                    /\ r.fetched = r.pageCount
              /\ (r.pc = "batchDelay" /\ r.answer # "error") =>
                    /\ r.fetched = r.pageCount
                    /\ ~Truthy(r.page) \/ r.pageCount = MAX_PAGES

\* a batch ended at the page cap with a continuation token still present
C6_Witness ==
    \E id \in RunIds :
        /\ runs[id].pc = "batchDelay"
        /\ runs[id].fetched = MAX_PAGES
        /\ Truthy(runs[id].page)

\* The configured categories written out directly: the characters of a
\* segment that are not blanks, for the segments that have any.
Named(seg) == SelectSeq(seg, LAMBDA c : c # " ")
Configured(e) ==
    SelectSeq([i \in 1..Len(e) |-> Named(e[i])], LAMBDA c : c # <<>>)

\* C7: a configured list of N categories (trimmed, empties dropped) is cut
\* into exactly ceil(N / 5) batches of 1 to 5 categories each whose
\* concatenation in order is the list; with N = 0 the run fetches nothing.
C7_Batches ==
    (started = 1 /\ env # <<>>) =>
        LET cats == Configured(env)
            N == Len(cats)
        IN  IF N = 0
            THEN /\ Active = {}
                 /\ lastRun.result = "totals"
                 /\ ~lastRun.fetched
            ELSE LET b == runs[1].batches
                 IN  /\ runs[1].pc = "fetch"
                     /\ Len(b) = CeilDiv(N, CATEGORY_BATCH_SIZE)
                     /\ \A i \in 1..Len(b) : Len(b[i]) \in 1..CATEGORY_BATCH_SIZE
                     /\ Flatten(b) = cats
                     /\ runs[1].params.category = b[1]

\* six categories among blank segments gave batches of sizes 5 and 1
C7_Witness ==
    /\ started = 1
    /\ Len(env) > 6
    /\ Len(runs[1].batches) = 2
    /\ Len(runs[1].batches[1]) = 5
    /\ Len(runs[1].batches[2]) = 1

\* C8: a payload whose status is not success raises nothing, writes nothing
\* and adds nothing to the totals; no further page of the batch is fetched;
\* the run waits the inter-batch delay and fetches the next batch from its
\* first page, or, after the last batch, returns its totals.
C8_DataError ==
    [][\A id \in RunIds :
         /\ (RunStep(id) /\ runs[id].pc = "fetch" /\ PostAnswer(id) = "error") =>
               /\ store' = store
               /\ IF runs[id].bi < Len(runs[id].batches)
                  THEN runs'[id] = [runs[id] EXCEPT !.pc = "batchDelay",
                                                    !.delay = BATCH_DELAY_MS,
                                                    !.answer = "error"]
                  ELSE /\ runs'[id] = Idle
                       /\ ~isRunning'
                       /\ lastRun'.pc = "returned"
                       /\ lastRun'.result = "totals"
                       /\ lastRun'.pages = runs[id].totalPages
                       /\ lastRun'.upserted = runs[id].totalUpserted
                       /\ lastRun'.modified = runs[id].totalModified
         /\ (RunStep(id) /\ runs[id].pc = "batchDelay") =>
               /\ runs'[id].pc = "fetch"
               /\ runs'[id].bi = runs[id].bi + 1
               /\ runs'[id].params = [category |-> runs[id].batches[runs[id].bi + 1],
                                      page |-> Omitted]
               /\ runs'[id].fetched = 1
               /\ runs'[id].totalPages = runs[id].totalPages]_vars

\* the first batch was aborted by an error payload after one stored page and
\* the run is fetching the second batch
C8_Witness ==
    \E id \in RunIds :
        /\ runs[id].pc = "fetch"
        /\ runs[id].bi = 2
        /\ runs[id].answer = "error"
        /\ runs[id].totalPages = 1
        /\ runs[id].params.page = Omitted

\* C9: when a fetch fails at transport level or bulkWrite raises, the run
\* ends in that step: it issues no further fetch or write, the error reaches
\* the caller of ingestNews with its message, and no totals are returned.
C9_Fatal ==
    [][\A id \in RunIds :
         (RunStep(id) /\ runs[id].pc \in {"fetch", "upsert"}
            /\ PostAnswer(id) \in {"transportError", "writeError"}) =>
               /\ runs'[id] = Idle
               /\ Active' = {}
               /\ lastRun'.pc = "threw"
               /\ lastRun'.result = "none"
               /\ lastRun'.origin = runs[id].origin
               /\ lastRun'.message \in
                     {e.message : e \in TransportErrors \cup {StoreError}}
               /\ (PostAnswer(id) = "transportError" => store' = store)
               /\ runs[id].origin = "manual" =>
                     (response'.via = "errorHandler" /\ response'.data = "none"
                        /\ response'.message = lastRun'.message)]_vars

\* a manual run failed at its second batch after pages had been stored
C9_Witness ==
    /\ lastRun.pc = "threw"
    /\ lastRun.origin = "manual"
    /\ lastRun.answer = "transportError"
    /\ lastRun.pages > 0
    /\ response.via = "errorHandler"
    /\ store # {}

\* C10: without credential a run, on any entry path, ends in the step that
\* began it: it returns without raising, fetches nothing, writes nothing,
\* and the flag is cleared; no run is ever under way and the store is never
\* written.
C10_NoCredential ==
    [][~API_KEY =>
         /\ Active' = {}
         /\ store' = {}
         /\ started' # started =>
               /\ ~isRunning'
               /\ lastRun'.pc = "returned"
               /\ lastRun'.result = "undefined"
               /\ lastRun'.origin = lastTrigger'.kind
               /\ ~lastRun'.fetched
               /\ lastRun'.origin = "manual" =>
                     (response'.status = 200 /\ response'.data = "undefined")]_vars

\* without credential the startup run and then a cron run returned at once
C10_Witness ==
    /\ ~API_KEY
    /\ started = 2
    /\ lastRun.origin = "cron"
    /\ lastRun.result = "undefined"
    /\ ~isRunning
    /\ store = {}

\* bulkWrite answers run id with its counts in this step
WriteOk(id) ==
    runs[id].pc = "upsert" /\ RunStep(id) /\ PostAnswer(id) = "writeOk"

DocsOf(st, aid) == {d \in st : d.article_id = aid}

\* The instant a well-formed "YYYY-MM-DD HH:mm:ss" string names, in UTC.
WellFormed(raw) ==
    Len(raw) = 3 /\ raw[1] \in Dates /\ raw[2] = " " /\ raw[3] \in Times
ExpectedDate(raw) ==
    IF WellFormed(raw) THEN <<raw[1], raw[3], "UTC">> ELSE NoDate

\* d is the Article an upsert of raw record rec alone stores: an absent
\* array is the empty sequence, an absent scalar is no value (null, or no
\* field at all in a document that was inserted without it).
Matches(d, rec) ==
    /\ d.article_id = rec.article_id
    /\ d.keywords = (IF rec.keywords = {} THEN <<>>
                     ELSE CHOOSE k \in rec.keywords : TRUE)
    /\ d.description = (IF rec.description \in {"undefined", ""} THEN Null
                        ELSE rec.description)
    /\ d.pubDate = ExpectedDate(rec.pubDate)
    /\ IF rec.title = "undefined" THEN d.title \in {Null, "absent"}
       ELSE d.title = rec.title

\* the page of the step holds one record only, once or repeated
OneRecord(P) == \A i \in 1..Len(P) : P[i] = P[1]

\* what a write of record P[1] alone, once or repeated, leaves in the store
OneArticle(P) ==
    LET old == DocsOf(store, P[1].article_id)
        new == DocsOf(store', P[1].article_id)
    IN  /\ Cardinality(new) = 1
        /\ \A d \in new : Matches(d, P[1])
        /\ store' \ new = store \ old

\* C11: of the upserts of one record, whether in one page or in different
\* pages or runs, the first adds 1 to upserted and every later one adds 1 to
\* modified, and exactly one Article, with the record's values, is stored
\* for its article_id.
C11_EveryRepeatCounts ==
    [][\A id \in RunIds :
         (WriteOk(id) /\ OneRecord(runs[id].articles)) =>
            LET P == runs[id].articles
                old == DocsOf(store, P[1].article_id)
            IN  /\ OneArticle(P)
                /\ old = {} =>
                      /\ lastRun'.upserted = 1
                      /\ lastRun'.modified = Len(P) - 1
                /\ (old # {} /\ \A d \in old : Matches(d, P[1])) =>
                      /\ lastRun'.upserted = 0
                      /\ lastRun'.modified = Len(P)]_vars


\* record P[i] is the last of the page for its article_id
LastOfId(P, i) == \A j \in (i + 1)..Len(P) : P[j].article_id # P[i].article_id

\* C12: after an upsert every tracked field of the stored Article is the
\* normalisation of the new record alone: an absent array is the empty
\* sequence, an absent scalar (title included) is no value, and nothing of
\* the earlier version survives.
C12_FullReplace ==
    [][\A id \in RunIds :
         WriteOk(id) =>
            LET P == runs[id].articles
            IN  \A i \in 1..Len(P) :
                   LastOfId(P, i) =>
                      /\ DocsOf(store', P[i].article_id) # {}
                      /\ \A d \in DocsOf(store', P[i].article_id) :
                             Matches(d, P[i])]_vars

\* C13: when the write of one article_id of a page fails, the writes of the
\* other keys are applied, neither the call nor the run is aborted, and the
\* adapter returns the counts of the operations that succeeded.
C13_Isolated ==
    [][\A id \in RunIds :
         (RunStep(id) /\ runs[id].pc = "upsert" /\ PostAnswer(id) = "writeError") =>
            /\ lastRun'.pc # "threw"
            /\ \E keep \in SUBSET (1..Len(runs[id].articles)) :
                  \E how \in Hows(runs[id].articles) :
                     LET res == bulkWrite(store, Kept(runs[id].articles, keep), how)
                     IN  /\ store' = res.store
                         /\ lastRun'.upserted = runs[id].totalUpserted + res.upserted
                         /\ lastRun'.modified = runs[id].totalModified + res.modified]_vars

\* C15: a record whose date string is not a well-formed "YYYY-MM-DD HH:mm:ss"
\* is stored all the same, with no pubDate; a record with a well-formed date
\* is stored with that instant in UTC; every record of the page has its
\* own date, whatever the dates of the other records.
C15_Dates ==
    [][\A id \in RunIds :
         WriteOk(id) =>
            LET P == runs[id].articles
            IN  \A i \in 1..Len(P) :
                   LastOfId(P, i) =>
                      /\ DocsOf(store', P[i].article_id) # {}
                      /\ \A d \in DocsOf(store', P[i].article_id) :
                             d.pubDate = ExpectedDate(P[i].pubDate)]_vars

\* one page held a record with a malformed date and a record with a
\* well-formed one: both are stored, the first without pubDate
C15_Witness ==
    /\ started = 1
    /\ lastRun.pc = "returned"
    /\ lastRun.upserted = 2
    /\ \E d \in store : d.article_id = "a1" /\ d.pubDate = NoDate
    /\ \E d \in store :
          d.article_id = "a2" /\ d.pubDate = <<"2026-02-20", "06:30:00", "UTC">>

\* the first fetch of a batch of run id is answered in this step with status
\* success, no results and no continuation token
EmptyFirstPage(id) ==
    /\ RunStep(id)
    /\ runs[id].pc = "fetch"
    /\ runs[id].pageCount = 0
    /\ PostAnswer(id) = "success"
    /\ runs'[id].pc # "upsert"
    /\ runs'[id].pc # "idle" => ~Truthy(runs'[id].nextPage)

\* pages = 1, upserted = 0, modified = 0 for the batch, the store untouched
EmptyPageRecorded(id) ==
    /\ store' = store
    /\ IF runs'[id].pc = "idle"
       THEN /\ lastRun'.pc = "returned"
            /\ lastRun'.pages = runs[id].totalPages + 1
            /\ lastRun'.upserted = runs[id].totalUpserted
            /\ lastRun'.modified = runs[id].totalModified
       ELSE /\ runs'[id].pageCount = 1
            /\ runs'[id].totalPages = runs[id].totalPages + 1
            /\ runs'[id].totalUpserted = runs[id].totalUpserted
            /\ runs'[id].totalModified = runs[id].totalModified

\* C14: after an empty first page without continuation token the batch
\* counts pages = 1, upserted = 0, modified = 0 and the run goes on to the
\* first fetch of the next batch without any delay.
C14_NoDelay ==
    [][\A id \in RunIds :
         EmptyFirstPage(id) =>
            /\ EmptyPageRecorded(id)
            /\ IF runs[id].bi < Len(runs[id].batches)
               THEN /\ runs'[id].pc = "fetch"
                    /\ runs'[id].bi = runs[id].bi + 1
                    /\ runs'[id].delay = 0
               ELSE runs'[id].pc = "idle"]_vars

\* C14 (amended): after an empty first page without continuation token the
\* batch counts pages = 1, upserted = 0, modified = 0, the store is not
\* touched and no inter-page delay is waited; if further batches remain the
\* run waits the inter-batch delay of 1.5 s before the next batch's first
\* fetch, and after the last batch it returns at once.
C14_EmptyPage ==
    [][\A id \in RunIds :
         EmptyFirstPage(id) =>
            /\ EmptyPageRecorded(id)
            /\ IF runs[id].bi < Len(runs[id].batches)
               THEN /\ runs'[id].pc = "batchDelay"
                    /\ runs'[id].bi = runs[id].bi
                    /\ runs'[id].delay = BATCH_DELAY_MS
               ELSE runs'[id].pc = "idle"]_vars

\* the first batch of two got an empty first page without token and the
\* run waits the inter-batch delay
C14_Witness ==
    \E id \in RunIds :
        /\ runs[id].pc = "batchDelay"
        /\ runs[id].bi = 1
        /\ runs[id].answer = "success"
        /\ ~Truthy(runs[id].nextPage)
        /\ runs[id].totalPages = 1
        /\ runs[id].totalUpserted = 0
        /\ runs[id].totalModified = 0

\* C16: with an invalid schedule expression startCronJob returns, nothing is
\* scheduled (no default schedule either), no cron firing and no startup run
\* ever begins a run, even with the run-at-startup flag set, and the flag is
\* free when startCronJob has returned; only manual triggers run ingestion.
C16_InvalidSchedule ==
    ~validSchedule =>
        /\ task = "null"
        /\ lastTrigger.kind \in {"none", "manual"}
        /\ lastRun.origin \in {"none", "manual"}
        /\ \A id \in RunIds : runs[id].origin \in {"none", "manual"}
        /\ started = 0 => ~isRunning

\* startCronJob has returned on an invalid schedule with the run-at-startup
\* flag set, and a manual run has then completed
C16_Witness ==
    /\ ~validSchedule
    /\ fetchOnStart
    /\ phase = "serving"
    /\ task = "null"
    /\ ~isRunning
    /\ started = 1
    /\ lastRun.origin = "manual"

\* C17: the inter-page delay of 1 s is waited exactly after a stored page
\* that left a continuation token with the page count below MAX_PAGES, and
\* is followed by the next fetch of the same batch; the inter-batch delay of
\* 1.5 s is waited exactly when a batch that is not the last one ends, by
\* token exhaustion, page cap or non-success payload, and is followed by the
\* first fetch of the next batch; after the last batch the run returns
\* without delay.
C17_Delays ==
    [][\A id \in RunIds :
         RunStep(id) =>
            LET r == runs[id]
                q == runs'[id]
                more == /\ PostAnswer(id) # "error"
                        /\ Truthy(q.nextPage)
                        /\ q.pageCount < MAX_PAGES
            IN  /\ (r.pc \in {"fetch", "upsert"} /\ q.pc \notin {"upsert", "idle"}) =>
                      IF more
                      THEN q.pc = "pageDelay" /\ q.delay = PAGE_DELAY_MS
                           /\ q.bi = r.bi
                      ELSE q.pc = "batchDelay" /\ q.delay = BATCH_DELAY_MS
                           /\ q.bi = r.bi /\ r.bi < Len(r.batches)
                /\ (r.pc \in {"fetch", "upsert"} /\ q.pc = "idle"
                      /\ lastRun'.pc = "returned") =>
                      r.bi = Len(r.batches)
                /\ r.pc = "pageDelay" =>
                      q.pc = "fetch" /\ q.bi = r.bi /\ q.delay = 0
                /\ r.pc = "batchDelay" =>
                      q.pc = "fetch" /\ q.bi = r.bi + 1 /\ q.delay = 0]_vars

\* a batch that is not the last was aborted by a non-success payload after
\* one stored page and an inter-page delay: the run waits the inter-batch
\* delay
C17_Witness ==
    \E id \in RunIds :
        /\ runs[id].pc = "batchDelay"
        /\ runs[id].delay = BATCH_DELAY_MS
        /\ runs[id].answer = "error"
        /\ runs[id].pageCount = 1
        /\ runs[id].fetched = 2
        /\ runs[id].bi < Len(runs[id].batches)

\* C18: at most one fetch is outstanding; a run fetches its batches in list
\* order; the first fetch of every batch carries the batch's categories and
\* no page token; every later fetch of a batch carries the continuation
\* token the preceding fetch of that batch returned; no fetch is issued in
\* the turn in which a fetch or a write settles.
C18_Sequential ==
    [][/\ Cardinality({id \in RunIds : runs'[id].pc = "fetch"}) <= 1
       /\ \A id \in RunIds :
            (runs'[id] # runs[id] /\ runs'[id].pc = "fetch") =>
               LET r == runs[id]
                   q == runs'[id]
               IN  /\ r.pc \in {"idle", "batchDelay", "pageDelay"}
                   /\ q.params.category = q.batches[q.bi]
                   /\ r.pc = "idle" =>
                         q.bi = 1 /\ q.params.page = Omitted
                   /\ r.pc = "batchDelay" =>
                         /\ q.batches = r.batches
                         /\ q.bi = r.bi + 1
                         /\ q.params.page = Omitted
                   /\ r.pc = "pageDelay" =>
                         /\ q.batches = r.batches
                         /\ q.bi = r.bi
                         /\ Truthy(r.nextPage)
                         /\ q.params.page = r.nextPage]_vars

\* the second batch is being fetched from its first page, without token,
\* although the first batch ended at the page cap with a token left
C18_Witness ==
    \E id \in RunIds :
        /\ runs[id].pc = "fetch"
        /\ runs[id].bi = 2
        /\ runs[id].params.page = Omitted
        /\ runs[id].totalPages = MAX_PAGES
        /\ Truthy(runs[id].nextPage)

\* the number of batches of the configured category list
Batches(e) ==
    IF e = <<>> THEN 1 ELSE CeilDiv(Len(Configured(e)), CATEGORY_BATCH_SIZE)

\* C19: the totals a run returns are exact: pages is the number of fetches
\* of the run that returned status success, upserted and modified are the
\* sums of the counts the store adapter returned for those pages, and pages
\* is at most MAX_PAGES times the number of batches.
C19_Totals ==
    (lastRun.pc = "returned" /\ lastRun.result = "totals") =>
        /\ lastRun.pages = lastRun.okFetches
        /\ lastRun.upserted = lastRun.sumUpserted
        /\ lastRun.modified = lastRun.sumModified
        /\ lastRun.pages <= MAX_PAGES * Batches(env)

\* a run returned totals of three pages, one insert and two updates
C19_Witness ==
    /\ lastRun.pc = "returned"
    /\ lastRun.result = "totals"
    /\ lastRun.pages = 3
    /\ lastRun.upserted = 1
    /\ lastRun.modified = 2

\* C20: a run over N categories issues at most MAX_PAGES * ceil(N / 5)
\* fetches, however many continuation tokens the upstream returns, and,
\* given that every pending fetch, write and timer settles, every run ends,
\* by returning or by raising.
C20_Terminates ==
    /\ [](\A id \in RunIds : runs[id].issued <= MAX_PAGES * Batches(env))
    /\ (Active # {}) ~> (Active = {} /\ lastRun.pc \in {"returned", "threw"})

\* a cron run over the default categories returned after the MAX_PAGES
\* pages of its one batch
C20_Witness ==
    /\ env = <<>>
    /\ lastRun.origin = "cron"
    /\ lastRun.pc = "returned"
    /\ lastRun.okFetches = MAX_PAGES
    /\ Active = {}

\* C21: a rejected trigger changes nothing: a manual trigger answered
\* "already in progress" or a cron firing that is skipped leaves isRunning
\* set, and leaves the run under way where it was, with its page token and
\* its totals, and the store, the scheduler and the last run's outcome as
\* they were.
C21_RejectedFrame ==
    [][DeniedStep =>
         /\ isRunning /\ isRunning'
         /\ Active # {}
         /\ runs' = runs
         /\ store' = store
         /\ lastRun' = lastRun
         /\ started' = started
         /\ <<phase, task, answered>>' = <<phase, task, answered>>]_vars

\* a manual trigger was rejected while a run that has stored a page waits
\* for the fetch of the next one, and the flag is still set
C21_Witness ==
    /\ lastTrigger = [kind |-> "manual", began |-> FALSE]
    /\ isRunning
    /\ \E id \in RunIds :
        /\ runs[id].pc = "fetch"
        /\ runs[id].params.page # Omitted
        /\ runs[id].totalPages = 1
        /\ runs[id].totalUpserted = 1

\* the last run was a cron or startup run that raised, and no run is under way
FailedScheduled ==
    /\ lastRun.origin \in {"cron", "startup"}
    /\ lastRun.pc = "threw"
    /\ Active = {}

\* C22: a failed cron or startup run never stops the scheduler and never
\* propagates out of it: in the step in which such a run raises the flag is
\* cleared, the task stays as it was and nothing reaches the error handler;
\* startCronJob returns in the turn in which it starts the startup run,
\* without waiting for it; and the next cron firing after the failure begins
\* a new run.
C22_SchedulerSurvives ==
    [][/\ \A id \in RunIds :
            (RunStep(id) /\ runs[id].origin \in {"cron", "startup"}
               /\ runs'[id].pc = "idle" /\ lastRun'.pc = "threw") =>
                /\ ~isRunning'
                /\ Active' = {}
                /\ task' = task
                /\ phase' = phase
                /\ response' = response
                /\ lastRun'.origin = runs[id].origin
       /\ (phase = "boot" /\ phase' # phase) =>
            /\ phase' = "serving"
            /\ (validSchedule /\ fetchOnStart) =>
                  /\ started' = 1
                  /\ task' = "scheduled"
                  /\ lastTrigger' = [kind |-> "startup", began |-> TRUE]
                  /\ API_KEY => (Active' # {} /\ isRunning')
       /\ (FailedScheduled /\ TriggerStep /\ lastTrigger'.kind = "cron") =>
            /\ task = "scheduled"
            /\ started' = started + 1
            /\ lastTrigger'.began
            /\ API_KEY => (\E id \in RunIds : runs'[id].origin = "cron"
                                              /\ runs'[id].pc = "fetch")]_vars

\* the startup run raised on its second page after startCronJob had
\* returned; the flag is free and the task still scheduled, with a further
\* run left to begin
C22_Witness ==
    /\ lastRun.origin = "startup"
    /\ lastRun.pc = "threw"
    /\ lastRun.pages = 1
    /\ phase = "serving"
    /\ task = "scheduled"
    /\ ~isRunning
    /\ response = NoResponse
    /\ started < MaxRuns

\* the article_ids stored
Ids(st) == {d.article_id : d \in st}

\* run id raises in this step
Raises(id) ==
    RunStep(id) /\ runs'[id].pc = "idle" /\ lastRun'.pc = "threw"

\* C23: there is no rollback and no deletion: no step removes an article_id
\* from the store, whatever runs return, abort or fail; when a fetch of a
\* run fails the store is left as the earlier pages and batches wrote it,
\* and when a write fails every Article the page does not name stays as it
\* was.
C23_NoRollback ==
    [][/\ Ids(store) \subseteq Ids(store')
       /\ \A id \in RunIds :
            Raises(id) =>
               /\ runs[id].pc = "fetch" => store' = store
               /\ runs[id].pc = "upsert" =>
                     \A d \in store :
                        (\A i \in 1..Len(runs[id].articles) :
                            runs[id].articles[i].article_id # d.article_id)
                           => d \in store']_vars

\* a run raised at a fetch after it had stored an Article from an earlier
\* page, and the Article is still stored
C23_Witness ==
    /\ lastRun.pc = "threw"
    /\ lastRun.answer = "transportError"
    /\ lastRun.pages >= 1
    /\ lastRun.upserted = 1
    /\ store # {}

====
